---------------------------- MODULE Spec2Model ----------------------------
(***************************************************************************)
(* A model of Calculate_CEQA_Requirements_and_Exemptions_Statewide.py:     *)
(* the per-county requirement pass, the tri-state exemption sweep and the  *)
(* materialisation of the two shared tables (requirements, exemptions).    *)
(***************************************************************************)
EXTENDS Integers, Sequences, FiniteSets, TLC

(***************************************************************************)
(* Values of a SHORT field.  Python's None (a <null> cell) is modelled by  *)
(* an integer outside {0, 1}, so that a cell always holds an integer.      *)
(***************************************************************************)
None == -1

Values == {0, 1, None}

\* Python truthiness of a cell value: None and 0 are falsy.
Truthy(v) == v # None /\ v # 0

Range(s) == {s[i] : i \in DOMAIN s}

\* The keys of a dictionary given as a sequence of <<key, value>> items.
Keys(items) == [i \in DOMAIN items |-> items[i][1]]

\* The dictionary lookup items[k].
Lookup(items, k) == items[CHOOSE i \in DOMAIN items : items[i][1] = k][2]

\* The requirements dictionary, in its insertion order: <<requirement id, field name>>.
requirements_items ==
  << <<"0.1", "urbanized_area_prc_21071_unincorporated_0_1">>,
     <<"2.1", "urbanized_area_prc_21071_2_1">>,
     <<"2.2", "urban_area_prc_21094_2_2">>,
     <<"2.3", "within_city_limits_2_3">>,
     <<"2.4", "unincorporated_2_4">>,
     <<"2.5", "within_mpo_2_5">>,
     <<"2.6", "covered_by_a_specific_plan_2_6">>,
     <<"2.7", "urbanized_area_or_urban_cluster_2_7">>,
     <<"3.1", "within_half_mile_major_transit_stop_3_1">>,
     <<"3.2", "within_quarter_mile_transit_corridor_3_2">>,
     <<"3.3", "transit_priority_area_3_3">>,
     <<"3.4", "within_half_mile_transit_corridor_3_4">>,
     <<"3.5", "within_half_mile_stop_transit_corridor_3_5">>,
     <<"3.6", "low_vmt_15_percent_below_regional_3_6">>,
     <<"3.8", "low_vehicle_travel_area_3_8">>,
     <<"3.9", "planned_rtp_half_mile_major_transit_stop_3_9">>,
     <<"3.10", "planned_rtip_half_mile_major_transit_stop_3_10">>,
     <<"3.11", "planned_rtip_half_mile_stop_hqtc_3_11">>,
     <<"3.12", "planned_rtp_half_mile_hqtc_3_12">>,
     <<"3.13", "planned_rtp_quarter_mile_hqtc_3_13">>,
     <<"3.14", "within_half_mile_rail_transit_station_or_ferry_terminal_3_14">>,
     <<"8.1", "wetlands_8_1">>,
     <<"8.2", "riparian_areas_8_2">>,
     <<"8.3", "special_habitats_8_3">>,
     <<"8.5", "rare_threatened_endangered_sp_8_5">>,
     <<"8.6", "prime_farmlands_or_farmlands_of_statewide_importance_8_6">>,
     <<"9.2", "earthquake_hazard_zone_9_2">>,
     <<"9.3", "wildfire_hazard_9_3">>,
     <<"9.4", "flood_plain_9_4">>,
     <<"9.5", "landslide_hazard_9_5">>,
     <<"9.6", "state_conservancy_9_6">>,
     <<"9.7", "local_coastal_zone_9_7">>,
     <<"9.8", "protected_area_mask_9_8">> >>

\* The requirements_with_no_data dictionary: <<county key, requirement ids>>.
requirements_with_no_data_items ==
  << <<"ALL_COUNTIES", <<>>>>,
     <<"monterey", <<"2.6", "3.9", "3.10", "3.11", "3.12", "3.13", "3.14", "9.5">>>>,
     <<"sanbenito", <<"2.6", "3.9", "3.10", "3.11", "3.12", "3.13", "3.14", "9.5">>>>,
     <<"santacruz", <<"3.10", "3.9", "3.11", "3.12", "3.13", "3.14", "9.5">>>>,
     <<"butte", <<"3.10", "3.14", "9.5">>>>,
     <<"fresno", <<"3.9", "3.10", "3.11", "3.12", "3.13", "3.14", "9.5">>>>,
     <<"kings", <<"2.6", "3.9", "3.10", "3.11", "3.12", "3.13", "3.14", "9.5">>>>,
     <<"kern", <<"3.9", "3.10", "3.11", "3.12", "3.13", "3.14", "9.5">>>>,
     <<"merced", <<"3.9", "3.10", "3.11", "3.12", "3.13", "3.14", "9.5">>>>,
     <<"madera", <<"2.6", "3.9", "3.10", "3.11", "3.12", "3.13", "3.14", "9.5">>>>,
     <<"alameda", <<"3.10", "3.11", "3.12", "3.13", "3.14">>>>,
     <<"contracosta", <<"3.10", "3.11", "3.12", "3.13", "3.14">>>>,
     <<"marin", <<"3.10", "3.11", "3.12", "3.13", "3.14", "9.5">>>>,
     <<"napa", <<"3.10", "3.11", "3.12", "3.13", "3.14", "9.5">>>>,
     <<"sanfrancisco", <<"2.6", "3.10", "3.11", "3.12", "3.13", "3.14">>>>,
     <<"sanmateo", <<"3.10", "3.11", "3.12", "3.13", "3.14">>>>,
     <<"santaclara", <<"3.10", "3.11", "3.12", "3.13", "3.14">>>>,
     <<"solano", <<"3.10", "3.11", "3.12", "3.13", "3.14", "9.5">>>>,
     <<"sonoma", <<"3.10", "3.11", "3.12", "3.13", "3.14", "9.5">>>>,
     <<"eldorado", <<"9.5">>>>,
     <<"placer", <<"9.5">>>>,
     <<"sacramento", <<"9.5">>>>,
     <<"sutter", <<"9.5">>>>,
     <<"yolo", <<"9.5">>>>,
     <<"yuba", <<"9.5">>>>,
     <<"sandiego", <<"3.9", "3.10", "3.11", "3.12", "3.13", "3.14", "9.5">>>>,
     <<"santabarbara", <<"3.9", "3.10", "3.11", "3.12", "3.13", "3.14", "9.5">>>>,
     <<"imperial", <<"3.10", "3.14", "9.5">>>>,
     <<"losangeles", <<"3.10", "3.14">>>>,
     <<"orange", <<"3.10", "3.14">>>>,
     <<"riverside", <<"3.10", "3.14">>>>,
     <<"sanbernardino", <<"3.10", "3.14">>>>,
     <<"ventura", <<"3.10", "3.14">>>>,
     <<"sanjoaquin", <<"2.6", "3.9", "3.10", "3.11", "3.12", "3.13", "3.14", "9.5">>>>,
     <<"sanluisobispo", <<"3.9", "3.10", "3.11", "3.12", "3.13", "3.14", "9.5">>>>,
     <<"shasta", <<"3.9", "3.10", "3.11", "3.12", "3.13", "3.14", "9.5">>>>,
     <<"stanislaus", <<"3.9", "3.10", "3.11", "3.12", "3.13", "3.14", "9.5">>>>,
     <<"tulare", <<"2.6", "3.9", "3.10", "3.11", "3.12", "3.13", "3.14", "9.5">>>>,
     <<"alpine", <<"2.6", "3.9", "3.10", "3.11", "3.12", "3.13", "3.14", "9.5">>>>,
     <<"amador", <<"2.6", "3.9", "3.10", "3.11", "3.12", "3.13", "3.14", "9.5">>>>,
     <<"calaveras", <<"2.6", "3.9", "3.10", "3.11", "3.12", "3.13", "3.14", "9.5">>>>,
     <<"colusa", <<"2.6", "3.9", "3.10", "3.11", "3.12", "3.13", "3.14", "9.5">>>>,
     <<"delnorte", <<"2.6", "3.9", "3.10", "3.11", "3.12", "3.13", "3.14", "9.5">>>>,
     <<"glenn", <<"2.6", "3.9", "3.10", "3.11", "3.12", "3.13", "3.14", "9.5">>>>,
     <<"humboldt", <<"2.6", "3.9", "3.10", "3.11", "3.12", "3.13", "3.14", "9.5">>>>,
     <<"inyo", <<"2.6", "3.9", "3.10", "3.11", "3.12", "3.13", "3.14", "9.5">>>>,
     <<"lake", <<"2.6", "3.9", "3.10", "3.11", "3.12", "3.13", "3.14", "9.5">>>>,
     <<"lassen", <<"2.6", "3.9", "3.10", "3.11", "3.12", "3.13", "3.14", "9.5">>>>,
     <<"mariposa", <<"2.6", "3.9", "3.10", "3.11", "3.12", "3.13", "3.14", "9.5">>>>,
     <<"mendocino", <<"3.9", "3.10", "3.11", "3.12", "3.13", "3.14", "9.5">>>>,
     <<"modoc", <<"2.6", "3.9", "3.10", "3.11", "3.12", "3.13", "3.14", "9.5">>>>,
     <<"mono", <<"3.9", "3.10", "3.11", "3.12", "3.13", "3.14", "9.5">>>>,
     <<"nevada", <<"2.6", "3.9", "3.10", "3.11", "3.12", "3.13", "3.14", "9.5">>>>,
     <<"plumas", <<"2.6", "3.9", "3.10", "3.11", "3.12", "3.13", "3.14", "9.5">>>>,
     <<"sierra", <<"2.6", "3.9", "3.10", "3.11", "3.12", "3.13", "3.14", "9.5">>>>,
     <<"siskiyou", <<"2.6", "3.9", "3.10", "3.11", "3.12", "3.13", "3.14", "9.5">>>>,
     <<"tehama", <<"2.6", "3.9", "3.10", "3.11", "3.12", "3.13", "3.14", "9.5">>>>,
     <<"trinity", <<"2.6", "3.9", "3.10", "3.11", "3.12", "3.13", "3.14", "9.5">>>>,
     <<"tuolumne", <<"2.6", "3.9", "3.10", "3.11", "3.12", "3.13", "3.14", "9.5">>>> >>

\* The exemptions dictionary, in its insertion order: <<exemption id, clauses>>.
\* A clause that is a Python list (an OR group) has list = TRUE; a clause that is a
\* plain requirement id has list = FALSE and holds that one id.
exemptions_items ==
  << <<"21159.24",
        <<[list |-> FALSE, ids |-> <<"2.1">>],
          [list |-> FALSE, ids |-> <<"3.1">>],
          [list |-> FALSE, ids |-> <<"8.1">>],
          [list |-> FALSE, ids |-> <<"8.2">>],
          [list |-> FALSE, ids |-> <<"8.3">>],
          [list |-> FALSE, ids |-> <<"8.5">>],
          [list |-> FALSE, ids |-> <<"9.2">>],
          [list |-> FALSE, ids |-> <<"9.3">>],
          [list |-> FALSE, ids |-> <<"9.4">>],
          [list |-> FALSE, ids |-> <<"9.5">>],
          [list |-> FALSE, ids |-> <<"9.6">>]>> >>,
     <<"21155.1",
        <<[list |-> FALSE, ids |-> <<"2.5">>],
          [list |-> TRUE, ids |-> <<"3.2", "3.13", "3.14">>],
          [list |-> FALSE, ids |-> <<"8.1">>],
          [list |-> FALSE, ids |-> <<"8.2">>],
          [list |-> FALSE, ids |-> <<"8.3">>],
          [list |-> FALSE, ids |-> <<"8.5">>],
          [list |-> FALSE, ids |-> <<"9.2">>],
          [list |-> FALSE, ids |-> <<"9.3">>],
          [list |-> FALSE, ids |-> <<"9.4">>],
          [list |-> FALSE, ids |-> <<"9.5">>]>> >>,
     <<"21155.2",
        <<[list |-> FALSE, ids |-> <<"2.5">>],
          [list |-> TRUE, ids |-> <<"3.1", "3.4", "3.9", "3.12">>]>> >>,
     <<"21155.4",
        <<[list |-> FALSE, ids |-> <<"2.5">>],
          [list |-> FALSE, ids |-> <<"2.6">>],
          [list |-> FALSE, ids |-> <<"3.3">>]>> >>,
     <<"21094.5",
        <<[list |-> FALSE, ids |-> <<"2.2">>],
          [list |-> TRUE, ids |-> <<"3.1", "3.5", "3.8", "3.10", "3.11">>]>> >>,
     <<"65457",
        <<[list |-> FALSE, ids |-> <<"2.6">>]>> >>,
     <<"15332",
        <<[list |-> FALSE, ids |-> <<"2.3">>],
          [list |-> FALSE, ids |-> <<"8.5">>]>> >>,
     <<"21159.25",
        <<[list |-> FALSE, ids |-> <<"2.4">>],
          [list |-> FALSE, ids |-> <<"2.7">>],
          [list |-> FALSE, ids |-> <<"8.5">>]>> >>,
     <<"21099",
        <<[list |-> FALSE, ids |-> <<"3.3">>]>> >>,
     <<"21159.28",
        <<[list |-> FALSE, ids |-> <<"2.5">>]>> >>,
     <<"15064.3",
        <<[list |-> TRUE, ids |-> <<"3.1", "3.5", "3.6">>]>> >> >>

\* "E_" + exemption.replace(".", "_"), tabulated for the exemption ids of the dictionary.
exemption_field_names ==
  << <<"21159.24", "E_21159_24">>,
     <<"21155.1", "E_21155_1">>,
     <<"21155.2", "E_21155_2">>,
     <<"21155.4", "E_21155_4">>,
     <<"21094.5", "E_21094_5">>,
     <<"65457", "E_65457">>,
     <<"15332", "E_15332">>,
     <<"21159.25", "E_21159_25">>,
     <<"21099", "E_21099">>,
     <<"21159.28", "E_21159_28">>,
     <<"15064.3", "E_15064_3">> >>

RequirementIds == Range(Keys(requirements_items))

\* requirements[id]: the field name of a requirement.
requirements_with_shared_name ==
  [id \in RequirementIds |->
     IF id = requirements_items[2][1] THEN requirements_items[1][2]
     ELSE Lookup(requirements_items, id)]

requirements == [id \in RequirementIds |-> Lookup(requirements_items, id)]

\* requirements.keys(), in dictionary order.
requirements_keys == Keys(requirements_items)

\* requirements.values()
requirements_values == {requirements[id] : id \in RequirementIds}

CountyKeys == Range(Keys(requirements_with_no_data_items))

requirements_with_no_data ==
  [c \in CountyKeys |-> Lookup(requirements_with_no_data_items, c)]

ExemptionIds == Range(Keys(exemptions_items))

exemptions_with_0_1 ==
  [e \in ExemptionIds |->
     IF e = exemptions_items[1][1]
       THEN Append(Lookup(exemptions_items, e), [list |-> FALSE, ids |-> <<"0.1">>])
       ELSE Lookup(exemptions_items, e)]

exemptions_with_unregistered_id ==
  [e \in ExemptionIds |->
     IF e = exemptions_items[1][1]
       THEN Append(Lookup(exemptions_items, e), [list |-> FALSE, ids |-> <<"3.7">>])
       ELSE Lookup(exemptions_items, e)]

exemptions == [e \in ExemptionIds |-> Lookup(exemptions_items, e)]

exemptions_keys_but_last ==
  SubSeq(Keys(exemptions_items), 1, Len(exemptions_items) - 1)

\* exemptions.keys(), in dictionary order.
exemptions_keys == Keys(exemptions_items)

\* exemption_field_name = "E_" + exemption.replace(".", "_")
exemption_field_name(e) == Lookup(exemption_field_names, e)

exemption_fields == {exemption_field_name(e) : e \in ExemptionIds}

\* Every field a wide parcel table or a shared table can carry besides the
\* retained descriptive fields.
AllFields == requirements_values \cup exemption_fields \cup {"exemptions_count"}

(***************************************************************************)
(* RequirementFunctions: the requirement ids that have a                   *)
(* calc_requirement_<id> method, by the kind of the method.  The arcpy     *)
(* methods select parcels by location (or by zonal statistics, 9.5) and    *)
(* calculate 1 for one side and 0 for the other; the model methods call a  *)
(* toolbox model, a black box that fills the field with 0, 1 or <null>.    *)
(***************************************************************************)
ArcpyFunctionIds ==
  {"0.1", "2.1", "2.2", "2.3", "2.4", "2.5", "2.7", "8.5", "8.6",
   "9.3", "9.4", "9.5", "9.6", "9.7", "9.8"}

ModelFunctionIds ==
  {"2.6", "3.1", "3.2", "3.3", "3.4", "3.5", "3.6", "3.7", "3.8", "3.9",
   "3.10", "3.11", "3.12", "3.13", "3.14", "8.1", "8.2", "8.3", "9.2"}

\* What the reference data says of a parcel: for an arcpy method 1 if the
\* parcel is in the selection of the method (SelectLayerByLocation; for 9.5
\* the landslide share of its area reaches the threshold), 0 if it is not;
\* for a toolbox model what the model writes.
CollabValues(requirement_id) ==
  IF requirement_id \in ArcpyFunctionIds THEN {0, 1} ELSE Values

selection_value_one(requirement_id) == 1

\* What an arcpy method calculates for the parcels of its selection; after
\* SWITCH_SELECTION it calculates the other value for the rest.
selection_value(requirement_id) ==
  IF requirement_id \in {"2.4", "8.5", "8.6", "9.3", "9.4", "9.5", "9.6",
                         "9.7", "9.8"}
    THEN 0 ELSE 1

\* What the method of a requirement writes into the cell of a parcel the
\* reference data answers 'answer' for.
written_value(answer, requirement_id) ==
  IF requirement_id \in ArcpyFunctionIds
    THEN IF answer = 1 THEN selection_value(requirement_id)
         ELSE 1 - selection_value(requirement_id)
    ELSE answer

(***************************************************************************)
(* The tri-state evaluation of calculate_exemptions.                       *)
(***************************************************************************)

or_clause_value_null_first(or_values) ==
  IF \E i \in DOMAIN or_values : or_values[i] = None THEN None
  ELSE IF \E i \in DOMAIN or_values : Truthy(or_values[i]) THEN 1
  ELSE 0

\* The value of an OR group from the values of its members (lines 1060-1067).
or_clause_value(or_values) ==
  IF \E i \in DOMAIN or_values : Truthy(or_values[i]) THEN 1
  ELSE IF \E i \in DOMAIN or_values : or_values[i] = None THEN None
  ELSE 0

exemption_status_null_first(check_requirements) ==
  IF \A i \in DOMAIN check_requirements : Truthy(check_requirements[i]) THEN 1
  ELSE IF \E i \in DOMAIN check_requirements : check_requirements[i] = None THEN None
  ELSE 0

\* The status of an exemption from the values of its clauses (lines 1081-1091).
exemption_status(check_requirements) ==
  IF \A i \in DOMAIN check_requirements : Truthy(check_requirements[i]) THEN 1
  ELSE IF \E i \in DOMAIN check_requirements : check_requirements[i] = 0 THEN 0
  ELSE None

\* or_values: the cells of the members of an OR group, in the group's order.
or_values_of(vals, clause) ==
  [i \in DOMAIN clause.ids |-> vals[requirements[clause.ids[i]]]]

\* The entry a clause appends to check_requirements.
clause_value(vals, clause) ==
  IF clause.list THEN or_clause_value(or_values_of(vals, clause))
  ELSE vals[requirements[clause.ids[1]]]

\* check_requirements for one row and one exemption.
check_requirements_of(vals, e) ==
  [i \in DOMAIN exemptions[e] |-> clause_value(vals, exemptions[e][i])]

\* The requirement fields the evaluation of an exemption looks up with
\* uc.fields.index(requirement_field_name).
fields_read(e) ==
  UNION {{requirements[c.ids[j]] : j \in DOMAIN c.ids} : c \in Range(exemptions[e])}

\* uc.fields.index raises for some field of the exemption: the except branch
\* prints and calls exit().
missing_field(fields, e) == \E f \in fields_read(e) : f \notin fields

(***************************************************************************)
(* The inputs of the model.                                                *)
(***************************************************************************)

\* The number of parcels of the larger county feature class.
MaxParcels == 2

\* The rows of a shared table beyond one per parcel up to which the model
\* follows the script.
MaxStaleRows == 1

\* The names of the county feature classes, in ascending string order.
SortedFcNames == <<"KINGS_Parcels", "YOLO_Parcels">>

FcNames == Range(SortedFcNames)

\* os.path.basename(output_parcels_fc).split("_")[0].lower()
\* arcpy.ListFeatureClasses(): the feature classes of the workspace, in an
\* order arcpy does not specify.
ListFeatureClasses(gdb) ==
  {l \in [1..Cardinality(DOMAIN gdb) -> DOMAIN gdb] : Range(l) = DOMAIN gdb}

unsorted(list) == list

\* list.sort(): the names in ascending order.
sort(list) == SelectSeq(SortedFcNames, LAMBDA fc : fc \in Range(list))

county_name_of(fc) ==
  CASE fc = "KINGS_Parcels" -> "kings"
    [] fc = "YOLO_Parcels" -> "yolo"

\* The value of county_name_field in the county's attribute table.
CountyNameAttr(fc) ==
  CASE fc = "KINGS_Parcels" -> "Kings"
    [] fc = "YOLO_Parcels" -> "Yolo"

\* The parcels of a source feature class: OBJECTID is the index, the value of
\* parcel_id_field is unique over the state.
SourceParcels(fc, n) ==
  [i \in 1..n |->
     [key |-> (IF fc = "KINGS_Parcels" THEN 100 ELSE 200) + i,
      county_name |-> CountyNameAttr(fc)]]

FullGdb ==
  [fc \in FcNames |->
     SourceParcels(fc, IF fc = "KINGS_Parcels" THEN MaxParcels ELSE 1)]

OneCountyGdb == [fc \in {"YOLO_Parcels"} |-> SourceParcels(fc, 1)]

TwoParcelGdb == [fc \in {"YOLO_Parcels"} |-> SourceParcels(fc, 2)]

\* The same county, its second parcel carrying the name of another county
\* in county_name_field.
MixedNamesGdb ==
  [fc \in {"YOLO_Parcels"} |->
     [SourceParcels(fc, 2) EXCEPT ![2].county_name = "Solano"]]

\* The cells of the reference data the model lets vary: <<fc, OBJECTID, id>>.
Cells(gdb, oids, ids) ==
  {<<fc, i, r>> : fc \in DOMAIN gdb, i \in oids, r \in ids}

\* The answers of the collaborators, from an assignment to the varying cells;
\* every other cell is such that its method writes the background value: a
\* parcel is in the selection of an arcpy method exactly if the method
\* calculates the background value for its selection.
World(gdb, a, background) ==
  [fc \in DOMAIN gdb |->
     [i \in DOMAIN gdb[fc] |->
        [r \in RequirementIds |->
           IF <<fc, i, r>> \in DOMAIN a THEN a[<<fc, i, r>>]
           ELSE IF r \in ArcpyFunctionIds /\ selection_value(r) # background
             THEN 0
           ELSE IF r \in ArcpyFunctionIds THEN 1
           ELSE background]]]

Assignments(cells) ==
  {a \in [cells -> Values] : \A c \in cells : a[c] \in CollabValues(c[3])}

\* The requirement ids some exemption refers to.
ReferencedIds ==
  UNION {{c.ids[j] : j \in DOMAIN c.ids} :
           c \in UNION {Range(exemptions[e]) : e \in ExemptionIds}}

requirement_of_field(f) == CHOOSE id \in RequirementIds : requirements[id] = f

\* A feature class / a shared table that does not exist.
NoFc == [exists |-> FALSE, fields |-> {}, rows |-> <<>>]

NoTable == [exists |-> FALSE, cols |-> {}, rows |-> <<>>]

NoVals == [f \in AllFields |-> None]

\* copy_parcels_fc: the source rows with the retained fields only.
CopiedFc(parcels) ==
  [exists |-> TRUE, fields |-> {},
   rows |-> [i \in DOMAIN parcels |->
               [key |-> parcels[i].key, county_name |-> parcels[i].county_name,
                vals |-> NoVals]]]

\* A wide table left by runs of an earlier version of the script: the fields
\* of the requirements the exemptions refer to, all calculated (the county's
\* no-data list was shorter then), and no exemption fields yet.
EarlierFc(parcels, answers) ==
  [exists |-> TRUE,
   fields |-> {requirements[r] : r \in ReferencedIds},
   rows |-> [i \in DOMAIN parcels |->
               [key |-> parcels[i].key, county_name |-> parcels[i].county_name,
                vals |-> [f \in AllFields |->
                            IF f \in {requirements[r] : r \in ReferencedIds}
                              THEN written_value(answers[i][requirement_of_field(f)],
                                                 requirement_of_field(f))
                              ELSE None]]]]

\* A wide table left by runs of a version of the script older still, whose
\* exemptions did not refer to 9.6: the same without the field of 9.6.
OlderFc(parcels, answers) ==
  [EarlierFc(parcels, answers) EXCEPT !.fields = @ \ {requirements["9.6"]}]

\* The selections a run can be configured with: "*" or an explicit list.
FcSelections ==
  {[all |-> TRUE, list |-> <<>>],
   [all |-> FALSE, list |-> <<"KINGS_Parcels">>],
   [all |-> FALSE, list |-> <<"YOLO_Parcels">>],
   [all |-> FALSE, list |-> <<"YOLO_Parcels", "KINGS_Parcels">>]}

RequirementSelections ==
  {[all |-> TRUE, list |-> <<>>],
   [all |-> FALSE, list |-> <<"2.6">>]}

\* The configurations of a run: the selections above, and one whose
\* requirement list holds "3.7", which has a method in RequirementFunctions
\* and no entry in requirements.
Configurations ==
  {[fcs |-> f, reqs |-> r] : f \in FcSelections, r \in RequirementSelections}
    \cup {[fcs |-> [all |-> FALSE, list |-> <<"YOLO_Parcels">>],
            reqs |-> [all |-> FALSE, list |-> <<"2.6", "3.7">>]]}

\* The requirements whose collaborator call the model lets fail.
MayFail == {"2.6"}

(***************************************************************************)
(* The state.                                                              *)
(***************************************************************************)
VARIABLES
  input_gdb,                \* input_parcels_gdb: fc name -> its parcels
  data,                     \* what the collaborators answer: fc -> OBJECTID -> id -> value
  output_fcs,               \* output_gdb_data_basin: fc name -> the wide parcel table
  dev_team_fcs,             \* output_gdb_dev_team: the names of the copied parcel classes
  dev_tables,               \* output_gdb_dev_team: the requirements and exemptions tables
  pc,                       \* where the script is
  input_parcels_fc_list,    \* the resolved list of feature classes of this run
  requirements_to_process,  \* the resolved list of requirement ids of this run
  count,                    \* the position of the main loop in input_parcels_fc_list
  existing_output_fields,   \* the module-level list of line 1272
  req_i,                    \* the position of calculate_requirements in its list
  row_i,                    \* the row the update cursor of calculate_exemptions is at
  ex_i,                     \* the position in exemptions_to_calculate for that row
  calls,                    \* history: do_command invocations of this county's pass, per id
  done_log,                 \* history: the calls of the main loop body that have returned
  grown,                    \* history: the columns this county's pass added to an existing requirements table
  last_pass,                \* history: the shared tables as the last completed county pass left them
  prev_pass,                \* history: the same for the completed pass before it
  configured                \* history: input_parcels_fc_list as the run was configured with it

vars ==
  <<input_gdb, data, output_fcs, dev_team_fcs, dev_tables, pc,
    input_parcels_fc_list, requirements_to_process, count,
    existing_output_fields, req_i, row_i, ex_i, calls, done_log, grown,
    last_pass, prev_pass, configured>>

inputs == <<input_gdb, data>>

locals == <<existing_output_fields, req_i, row_i, ex_i>>

NoCalls == [r \in RequirementIds |-> 0]

NoPass == [fc |-> "", reqs |-> <<>>, tables |-> <<>>]

\* The feature class the main loop is at.
\* No run is in progress: nothing is configured.
NoSelection == [all |-> FALSE, list |-> <<>>]

input_parcels_fc_name == input_parcels_fc_list[count]

output_parcels_fc == output_fcs[input_parcels_fc_name]

\* What a completed pass is remembered by: for each shared table its columns,
\* the set of its rows and their number.
Snapshot(tables) ==
  [t \in DOMAIN tables |->
     [cols |-> tables[t].cols, rows |-> Range(tables[t].rows),
      n |-> Len(tables[t].rows)]]

(***************************************************************************)
(* arcpy operations on a feature class or table.                           *)
(***************************************************************************)

\* AddField_management: a new field holds <null> in every row; adding a
\* field that exists changes nothing (arcpy warns).
AddField(fc, field) == [fc EXCEPT !.fields = @ \cup {field}]

\* CalculateField_management with a constant expression.
CalculateField(fc, field, v) ==
  [fc EXCEPT !.rows = [i \in DOMAIN @ |-> [@[i] EXCEPT !.vals[field] = v]]]

\* What 'field in arcpy.ListFields(table)' evaluates to: ListFields returns
\* Field objects, and a field name (a str) equals none of them.
in_ListFields(field, table) == FALSE

\* A row of a shared table: the key, the county name and the mapped fields.
Project(row, keep) ==
  [key |-> row.key, county_name |-> row.county_name,
   vals |-> [f \in AllFields |-> IF f \in keep THEN row.vals[f] ELSE None]]

\* TableToTable_conversion with the field mapping of fields_to_keep.
TableToTable_conversion(fc, keep) ==
  [exists |-> TRUE, cols |-> keep,
   rows |-> [i \in DOMAIN fc.rows |-> Project(fc.rows[i], keep)]]

\* Append_management, schema_type NO_TEST: a mapped field the target lacks
\* is dropped.
Append_management(fc, table, keep) ==
  [table EXCEPT
     !.rows = @ \o [i \in DOMAIN fc.rows |-> Project(fc.rows[i], keep \cap table.cols)]]

(***************************************************************************)
(* The functions of the script.                                            *)
(***************************************************************************)

requirements_with_no_data_intersected(fc) ==
  SelectSeq(requirements_with_no_data[county_name_of(fc)],
            LAMBDA r : r \in Range(requirements_with_no_data["ALL_COUNTIES"]))

requirements_with_no_data_everything(fc) == requirements_keys

requirements_with_no_data_selected(fc) ==
  SelectSeq(requirements_with_no_data[county_name_of(fc)]
              \o requirements_with_no_data["ALL_COUNTIES"],
            LAMBDA r : r \in Range(requirements_to_process))

\* requirements_with_no_data[county_name] + requirements_with_no_data["ALL_COUNTIES"]
requirements_with_no_data_this_county(fc) ==
  requirements_with_no_data[county_name_of(fc)]
    \o requirements_with_no_data["ALL_COUNTIES"]

null_no_data_field_kept(fc, field, existing) ==
  IF field \in existing THEN fc ELSE AddField(fc, field)

\* One iteration of the no-data loop of calculate_requirements.
null_no_data_field(fc, field, existing) ==
  IF field \in existing THEN CalculateField(fc, field, None)
  ELSE AddField(fc, field)

RECURSIVE null_no_data_fields(_, _, _)
\* The no-data loop: the feature class after it, for the list no_data.
null_no_data_fields(fc, no_data, existing) ==
  IF no_data = <<>> THEN fc
  ELSE null_no_data_fields(
         null_no_data_field(fc, requirements[Head(no_data)], existing),
         Tail(no_data), existing \cup {requirements[Head(no_data)]})

calls_always(requirement, no_data) == TRUE

\* 'if requirement not in requirements_with_no_data_this_county'
calls_collaborator(requirement, no_data) == requirement \notin Range(no_data)

\* RequirementFunctions.do_command: the method of the requirement fills the
\* field of every row; default_function fills nothing.
do_command(fc, answers, requirement_id, field_to_calc) ==
  IF requirement_id \in ArcpyFunctionIds \cup ModelFunctionIds
    THEN [fc EXCEPT !.rows =
            [i \in DOMAIN @ |->
               [@[i] EXCEPT !.vals[field_to_calc] =
                  written_value(answers[i][requirement_id], requirement_id)]]]
    ELSE fc

delete_nothing(fc, table) == table

delete_first_county_row(fc, table) ==
  LET county_name_in_att_table == fc.rows[1].county_name
      hits == {i \in DOMAIN table.rows :
                 table.rows[i].county_name = county_name_in_att_table}
  IN  [table EXCEPT
         !.rows = IF hits = {} THEN @
                  ELSE LET first == CHOOSE i \in hits : \A j \in hits : i <= j
                       IN  SubSeq(@, 1, first - 1) \o SubSeq(@, first + 1, Len(@))]

delete_rows_of_fc(fc, table) ==
  [table EXCEPT
     !.rows = SelectSeq(@, LAMBDA r : \A i \in DOMAIN fc.rows : r.key # fc.rows[i].key)]

delete_all_rows(fc, table) == [table EXCEPT !.rows = <<>>]

delete_later_county_rows(fc, table) ==
  LET county_name_in_att_table == fc.rows[1].county_name
      hits == {i \in DOMAIN table.rows :
                 table.rows[i].county_name = county_name_in_att_table}
  IN  [table EXCEPT
         !.rows = SelectSeq(@, LAMBDA r :
                    \/ r.county_name # county_name_in_att_table
                    \/ \E i \in hits : @[i] = r /\ \A j \in hits : i <= j)]

delete_other_county_rows(fc, table) ==
  LET county_name_in_att_table == fc.rows[1].county_name
  IN  [table EXCEPT
         !.rows = SelectSeq(@, LAMBDA r : r.county_name = county_name_in_att_table)]

\* delete_county_rows_from_dev_table: the rows whose county_name is that of
\* the parcel with OBJECTID = 1 are deleted.
delete_county_rows_from_dev_table(fc, table) ==
  LET county_name_in_att_table == fc.rows[1].county_name
  IN  [table EXCEPT
         !.rows = SelectSeq(@, LAMBDA r : r.county_name # county_name_in_att_table)]

\* The fields create_*_table_dev_team calls AddField_management for on the
\* shared table: 'arcpy.Exists(table) and field not in arcpy.ListFields(table)'.
add_field_calls(table, keep) ==
  IF table.exists THEN {f \in keep : ~in_ListFields(f, table)} ELSE {}

add_no_fields(table, keep) == table

\* The AddField calls of create_*_table_dev_team on an existing table.
add_missing_fields(table, keep) ==
  [table EXCEPT !.cols = @ \cup add_field_calls(table, keep)]

\* The rest of create_*_table_dev_team: create the table, or append to it.
create_or_append(fc, table, keep) ==
  IF ~table.exists THEN TableToTable_conversion(fc, keep) ELSE Append_management(fc, table, keep)

main_loop_sweeps_again(returned) ==
  CASE returned = "calculate_requirements" -> "ex_prep"
    [] returned = "calculate_exemptions" -> "ex_prep"
    [] returned = "create_requirements_table_dev_team" -> "ex_table"
    [] returned = "create_exemptions_table_dev_team" -> "loop"

main_loop_tables_first(returned) ==
  CASE returned = "calculate_requirements" -> "req_table"
    [] returned = "create_requirements_table_dev_team" -> "ex_prep"
    [] returned = "calculate_exemptions" -> "ex_table"
    [] returned = "create_exemptions_table_dev_team" -> "loop"

\* The body of the main loop: where the script goes when a call returns.
main_loop_after(returned) ==
  CASE returned = "calculate_requirements" -> "ex_prep"
    [] returned = "calculate_exemptions" -> "req_table"
    [] returned = "create_requirements_table_dev_team" -> "ex_table"
    [] returned = "create_exemptions_table_dev_team" -> "loop"

\* The shared tables left by an earlier version of the script, which knew
\* one exemption less, from the one county it was run on: the requirements
\* table as create_requirements_table_dev_team makes it, the exemptions table
\* with the rows a sweep over unknown requirement values stores.
EarlierRequirementsTable(fc) ==
  TableToTable_conversion(fc, fc.fields \cap requirements_values)

EarlierExemptionFields ==
  exemption_fields \ {exemption_field_name(exemptions_keys[Len(exemptions_keys)])}

EarlierExemptionsTable(fc) ==
  [exists |-> TRUE,
   cols |-> EarlierExemptionFields \cup {"exemptions_count"},
   rows |-> [i \in DOMAIN fc.rows |->
               [Project(fc.rows[i], {}) EXCEPT !.vals["exemptions_count"] = 0]]]

(***************************************************************************)
(* The initial states: no run is in progress; a county may already have a  *)
(* wide table from an earlier version of the script, and the shared tables *)
(* may exist with the rows of one such county.                             *)
(***************************************************************************)
\* The wide tables runs of an earlier version would have left of the
\* counties of a workspace, and those of a version older still.
EarlierFcs(gdb) == [fc \in DOMAIN gdb |-> EarlierFc(gdb[fc], data[fc])]

OlderFcs(gdb) == [fc \in DOMAIN gdb |-> OlderFc(gdb[fc], data[fc])]

\* What is in the output geodatabases before the first run: the wide tables
\* 'left' of some counties, and no shared tables or those of one such county.
LeftBy(gdb, left) ==
  \E earlier \in SUBSET DOMAIN gdb :
    /\ output_fcs = [fc \in DOMAIN gdb |->
                       IF fc \in earlier THEN left[fc] ELSE NoFc]
    /\ dev_team_fcs = earlier
    /\ \/ dev_tables = [requirements |-> NoTable, exemptions |-> NoTable]
       \/ \E fc \in earlier :
            dev_tables =
              [requirements |-> EarlierRequirementsTable(output_fcs[fc]),
               exemptions |-> EarlierExemptionsTable(output_fcs[fc])]

\* No run is in progress.
NotStarted ==
  /\ pc = "idle"
  /\ input_parcels_fc_list = <<>>
  /\ requirements_to_process = <<>>
  /\ count = 0
  /\ existing_output_fields = {}
  /\ req_i = 0
  /\ row_i = 0
  /\ ex_i = 0
  /\ calls = NoCalls
  /\ done_log = <<>>
  /\ grown = {}
  /\ last_pass = NoPass
  /\ prev_pass = NoPass
  /\ configured = NoSelection

InitWith(gdb, worlds) ==
  /\ input_gdb = gdb
  /\ data \in worlds
  /\ LeftBy(gdb, EarlierFcs(gdb))
  /\ NotStarted

\* Two counties; the answer for 2.6 (a toolbox model; Kings has no data for
\* it, Yolo has) varies on the first parcel of each county.
PipelineWorlds ==
  {World(FullGdb, a, 1) : a \in Assignments(Cells(FullGdb, {1}, {"2.6"}))}

\* One county with one parcel; the answers vary for the requirements of
\* 21155.4 (three single clauses), of 15064.3 (one OR group), and of 21155.2
\* (a single clause and an OR group).
EvaluationWorlds ==
  {World(OneCountyGdb, a, 1) :
     a \in Assignments(Cells(OneCountyGdb, {1}, {"2.5", "2.6", "3.3"}))}
  \cup {World(OneCountyGdb, a, 1) :
     a \in Assignments(Cells(OneCountyGdb, {1}, {"3.1", "3.5", "3.6"}))}
  \cup {World(OneCountyGdb, a, 0) :
     a \in Assignments(Cells(OneCountyGdb, {1}, {"2.5", "3.1"}))}

Init == InitWith(FullGdb, PipelineWorlds)

InitEvaluation == InitWith(OneCountyGdb, EvaluationWorlds)

\* Two counties, every method writing 1.
TerminationWorlds == {World(FullGdb, <<>>, 1)}

InitTermination == InitWith(FullGdb, TerminationWorlds)

\* One county with two parcels; the answers vary for 0.1 on both parcels,
\* and on the second parcel for 8.6 and 2.5.
TwoParcelWorlds ==
  {World(TwoParcelGdb, a, 1) :
     a \in Assignments(Cells(TwoParcelGdb, {1, 2}, {"0.1"})
                         \cup Cells(TwoParcelGdb, {2}, {"2.5", "8.6"}))}

\* The county may also have a wide table from a version of the script whose
\* exemptions did not refer to 9.6 yet.
InitTwoParcels ==
  /\ input_gdb \in {TwoParcelGdb, MixedNamesGdb}
  /\ data \in TwoParcelWorlds
  /\ LeftBy(input_gdb, EarlierFcs(input_gdb)) \/ LeftBy(input_gdb, OlderFcs(input_gdb))
  /\ NotStarted

\* The process ends: its variables are gone.
ProcessEnds ==
  /\ input_parcels_fc_list' = <<>>
  /\ requirements_to_process' = <<>>
  /\ count' = 0
  /\ existing_output_fields' = {}
  /\ req_i' = 0
  /\ row_i' = 0
  /\ ex_i' = 0
  /\ configured' = NoSelection

(***************************************************************************)
(* The script is started with a configuration (lines 1227-1250).           *)
(***************************************************************************)
\* The parcels of all the feature classes of a workspace.
ParcelsOf(gdb) == UNION {{<<fc, i>> : i \in DOMAIN gdb[fc]} : fc \in DOMAIN gdb}

\* The rows a purge left behind are within the bound of the model: a shared
\* table has at most MaxStaleRows rows more than there are parcels.
WithinBound(table) ==
  Len(table.rows) <= Cardinality(ParcelsOf(input_gdb)) + MaxStaleRows

StartRun(fcs, reqs) ==
  /\ pc \in {"idle", "finished", "crashed", "exited"}
  /\ WithinBound(dev_tables.requirements)
  /\ WithinBound(dev_tables.exemptions)
  /\ Range(fcs.list) \subseteq DOMAIN input_gdb
  /\ \E listed \in ListFeatureClasses(input_gdb) :
       input_parcels_fc_list' = IF fcs.all THEN sort(listed) ELSE fcs.list
  /\ configured' = fcs
  /\ requirements_to_process' = IF reqs.all THEN requirements_keys ELSE reqs.list
  /\ count' = 1
  /\ pc' = "loop"
  /\ calls' = NoCalls
  /\ done_log' = <<>>
  /\ grown' = {}
  /\ UNCHANGED <<inputs, output_fcs, dev_team_fcs, dev_tables, locals,
                 last_pass, prev_pass>>

copy_always(out_fc, parcels) == CopiedFc(parcels)

recopy_rows(out_fc, parcels) ==
  IF out_fc.exists THEN [CopiedFc(parcels) EXCEPT !.fields = out_fc.fields]
  ELSE CopiedFc(parcels)

\* Lines 1264-1266: the output feature class is copied from the input if it
\* does not exist, and left as it is if it does.
copy_if_not_exists(out_fc, parcels) ==
  IF out_fc.exists THEN out_fc ELSE CopiedFc(parcels)

\* The head of the main loop body (lines 1253-1272): the county's feature
\* classes are copied if they do not exist yet.
BeginCounty ==
  /\ pc = "loop"
  /\ count <= Len(input_parcels_fc_list)
  /\ LET fc == input_parcels_fc_name
         out == copy_if_not_exists(output_fcs[fc], input_gdb[fc])
         same == last_pass.fc = fc /\ last_pass.reqs = requirements_to_process
     IN  /\ output_fcs' = [output_fcs EXCEPT ![fc] = out]
         /\ dev_team_fcs' = dev_team_fcs \cup {fc}
         /\ existing_output_fields' = out.fields
         /\ last_pass' = IF same THEN last_pass ELSE NoPass
         /\ prev_pass' = NoPass
  /\ pc' = "mask"
  /\ calls' = NoCalls
  /\ done_log' = <<>>
  /\ grown' = {}
  /\ UNCHANGED <<inputs, configured, dev_tables, input_parcels_fc_list,
                 requirements_to_process, count, req_i, row_i, ex_i>>

\* The main loop is through (lines 1295-1299).
EndRun ==
  /\ pc = "loop"
  /\ count > Len(input_parcels_fc_list)
  /\ pc' = "finished"
  /\ ProcessEnds
  /\ UNCHANGED <<inputs, output_fcs, dev_team_fcs, dev_tables, calls, done_log,
                 grown, last_pass, prev_pass>>

\* calculate_requirements, lines 463-484: the no-data fields.
NullNoDataFields ==
  /\ pc = "mask"
  /\ LET no_data == requirements_with_no_data_this_county(input_parcels_fc_name)
     IN  /\ output_fcs' =
               [output_fcs EXCEPT ![input_parcels_fc_name] =
                  null_no_data_fields(@, no_data, existing_output_fields)]
         /\ existing_output_fields' =
               existing_output_fields \cup {requirements[r] : r \in Range(no_data)}
  /\ req_i' = 1
  /\ pc' = "req"
  /\ UNCHANGED <<inputs, configured, dev_team_fcs, dev_tables, input_parcels_fc_list,
                 requirements_to_process, count, row_i, ex_i, calls, done_log,
                 grown, last_pass, prev_pass>>

\* 'requirements[requirement]' raises KeyError for a key the dict lacks.
raises_KeyError(requirement) == requirement \notin RequirementIds

\* calculate_requirements, line 489: the requirement the loop is at is no key
\* of requirements; nothing catches the KeyError, the process dies.
RequirementKeyError ==
  /\ pc = "req"
  /\ req_i <= Len(requirements_to_process)
  /\ raises_KeyError(requirements_to_process[req_i])
  /\ pc' = "crashed"
  /\ ProcessEnds
  /\ last_pass' = NoPass
  /\ prev_pass' = NoPass
  /\ UNCHANGED <<inputs, output_fcs, dev_team_fcs, dev_tables, calls, done_log,
                 grown>>

\* calculate_requirements, lines 487-499: one requirement of the list.
ProcessRequirement ==
  /\ pc = "req"
  /\ req_i <= Len(requirements_to_process)
  /\ ~raises_KeyError(requirements_to_process[req_i])
  /\ LET fc == input_parcels_fc_name
         requirement == requirements_to_process[req_i]
         field_to_calc == requirements[requirement]
         no_data == requirements_with_no_data_this_county(fc)
         added == IF field_to_calc \notin existing_output_fields
                    THEN AddField(output_fcs[fc], field_to_calc)
                    ELSE output_fcs[fc]
     IN  IF calls_collaborator(requirement, no_data)
           THEN /\ output_fcs' =
                     [output_fcs EXCEPT ![fc] =
                        do_command(added, data[fc], requirement, field_to_calc)]
                /\ calls' = [calls EXCEPT ![requirement] = @ + 1]
           ELSE /\ output_fcs' = [output_fcs EXCEPT ![fc] = added]
                /\ calls' = calls
  /\ req_i' = req_i + 1
  /\ UNCHANGED <<inputs, configured, dev_team_fcs, dev_tables, pc, input_parcels_fc_list,
                 requirements_to_process, count, existing_output_fields, row_i,
                 ex_i, done_log, grown, last_pass, prev_pass>>

exception_swallowed(at) == at

\* Where the script is after an exception raised at 'at': the script has no
\* handler around its calls, the interpreter ends the process.
uncaught_exception(at) == "crashed"

\* The collaborator of a requirement raises: nothing in the script catches
\* it, the process dies with the field added and not calculated.
CollaboratorFails ==
  /\ pc = "req"
  /\ req_i <= Len(requirements_to_process)
  /\ ~raises_KeyError(requirements_to_process[req_i])
  /\ LET fc == input_parcels_fc_name
         requirement == requirements_to_process[req_i]
         field_to_calc == requirements[requirement]
         no_data == requirements_with_no_data_this_county(fc)
     IN  /\ requirement \in MayFail
         /\ calls_collaborator(requirement, no_data)
         /\ output_fcs' =
              [output_fcs EXCEPT ![fc] =
                 IF field_to_calc \notin existing_output_fields
                   THEN AddField(@, field_to_calc) ELSE @]
         /\ calls' = [calls EXCEPT ![requirement] = @ + 1]
  /\ pc' = uncaught_exception("req")
  /\ ProcessEnds
  /\ last_pass' = NoPass
  /\ prev_pass' = NoPass
  /\ UNCHANGED <<inputs, dev_team_fcs, dev_tables, done_log, grown>>

\* calculate_requirements, lines 501-504: the county's rows leave the
\* requirements table, and the function returns.
PurgeRequirements ==
  /\ pc = "req"
  /\ req_i > Len(requirements_to_process)
  /\ dev_tables' =
       [dev_tables EXCEPT !.requirements =
          IF @.exists THEN delete_county_rows_from_dev_table(output_parcels_fc, @)
          ELSE @]
  /\ done_log' = Append(done_log, "calculate_requirements")
  /\ pc' = main_loop_after("calculate_requirements")
  /\ UNCHANGED <<inputs, configured, output_fcs, dev_team_fcs, input_parcels_fc_list,
                 requirements_to_process, count, locals, calls, grown,
                 last_pass, prev_pass>>

reset_new_exemptions_count(fc) ==
  IF "exemptions_count" \in fc.fields THEN fc
  ELSE CalculateField(AddField(fc, "exemptions_count"), "exemptions_count", 0)

\* calculate_exemptions, lines 1010-1015: exemptions_count exists and is 0.
reset_exemptions_count(fc) ==
  CalculateField(AddField(fc, "exemptions_count"), "exemptions_count", 0)

\* calculate_exemptions, lines 1008-1026: the count and exemption fields.
PrepareExemptions ==
  /\ pc = "ex_prep"
  /\ output_fcs' =
       [output_fcs EXCEPT ![input_parcels_fc_name] =
          [reset_exemptions_count(@) EXCEPT !.fields = @ \cup exemption_fields]]
  /\ row_i' = 1
  /\ ex_i' = 1
  /\ pc' = "sweep"
  /\ UNCHANGED <<inputs, configured, dev_team_fcs, dev_tables, input_parcels_fc_list,
                 requirements_to_process, count, existing_output_fields, req_i,
                 calls, done_log, grown, last_pass, prev_pass>>

missing_field_is_null(fc, e) == FALSE

\* Whether the evaluation of exemption e on a row of fc ends in exit().
exits_on(fc, e) == missing_field(fc.fields, e)

\* calculate_exemptions, lines 1034-1096: one exemption of one row.
CalculateExemption ==
  /\ pc = "sweep"
  /\ row_i <= Len(output_parcels_fc.rows)
  /\ LET fc == input_parcels_fc_name
         e == exemptions_keys[ex_i]
         row == output_parcels_fc.rows[row_i]
         status == exemption_status(check_requirements_of(row.vals, e))
         exemptions_count ==
           row.vals["exemptions_count"] + (IF status = 1 THEN 1 ELSE 0)
     IN  /\ ~exits_on(output_parcels_fc, e)
         /\ output_fcs' =
              [output_fcs EXCEPT ![fc].rows[row_i].vals =
                 [@ EXCEPT ![exemption_field_name(e)] = status,
                           !["exemptions_count"] = exemptions_count]]
  /\ IF ex_i < Len(exemptions_keys)
       THEN ex_i' = ex_i + 1 /\ row_i' = row_i
       ELSE ex_i' = 1 /\ row_i' = row_i + 1
  /\ UNCHANGED <<inputs, configured, dev_team_fcs, dev_tables, pc, input_parcels_fc_list,
                 requirements_to_process, count, existing_output_fields, req_i,
                 calls, done_log, grown, last_pass, prev_pass>>

\* calculate_exemptions, lines 1051-1056 and 1072-1077: a requirement field
\* is missing, the script prints and exits.
MissingFieldExit ==
  /\ pc = "sweep"
  /\ row_i <= Len(output_parcels_fc.rows)
  /\ exits_on(output_parcels_fc, exemptions_keys[ex_i])
  /\ pc' = "exited"
  /\ ProcessEnds
  /\ last_pass' = NoPass
  /\ prev_pass' = NoPass
  /\ UNCHANGED <<inputs, output_fcs, dev_team_fcs, dev_tables, calls, done_log,
                 grown>>

\* calculate_exemptions, lines 1098-1101: the county's rows leave the
\* exemptions table, and the function returns.
PurgeExemptions ==
  /\ pc = "sweep"
  /\ row_i > Len(output_parcels_fc.rows)
  /\ dev_tables' =
       [dev_tables EXCEPT !.exemptions =
          IF @.exists THEN delete_county_rows_from_dev_table(output_parcels_fc, @)
          ELSE @]
  /\ done_log' = Append(done_log, "calculate_exemptions")
  /\ pc' = main_loop_after("calculate_exemptions")
  /\ UNCHANGED <<inputs, configured, output_fcs, dev_team_fcs, input_parcels_fc_list,
                 requirements_to_process, count, locals, calls, grown,
                 last_pass, prev_pass>>

\* create_requirements_table_dev_team.
CreateRequirementsTable ==
  /\ pc = "req_table"
  /\ LET table == dev_tables.requirements
         fields_to_keep == output_parcels_fc.fields \cap requirements_values
     IN  /\ dev_tables' =
              [dev_tables EXCEPT !.requirements =
                 create_or_append(output_parcels_fc,
                                  add_missing_fields(table, fields_to_keep),
                                  fields_to_keep)]
         /\ grown' = IF table.exists THEN fields_to_keep \ table.cols ELSE {}
  /\ done_log' = Append(done_log, "create_requirements_table_dev_team")
  /\ pc' = main_loop_after("create_requirements_table_dev_team")
  /\ UNCHANGED <<inputs, configured, output_fcs, dev_team_fcs, input_parcels_fc_list,
                 requirements_to_process, count, locals, calls, last_pass,
                 prev_pass>>

\* create_exemptions_table_dev_team, and the end of the loop body (line 1293).
CreateExemptionsTable ==
  /\ pc = "ex_table"
  /\ LET table == dev_tables.exemptions
         exemption_fields_kept == output_parcels_fc.fields \cap exemption_fields
         fields_to_keep == exemption_fields_kept \cup {"exemptions_count"}
         tables == [dev_tables EXCEPT !.exemptions =
                      create_or_append(output_parcels_fc,
                                       add_missing_fields(table, exemption_fields_kept),
                                       fields_to_keep)]
     IN  /\ dev_tables' = tables
         /\ prev_pass' = last_pass
         /\ last_pass' = [fc |-> input_parcels_fc_name,
                          reqs |-> requirements_to_process,
                          tables |-> Snapshot(tables)]
  /\ done_log' = Append(done_log, "create_exemptions_table_dev_team")
  /\ count' = count + 1
  /\ pc' = main_loop_after("create_exemptions_table_dev_team")
  /\ UNCHANGED <<inputs, configured, output_fcs, dev_team_fcs, input_parcels_fc_list,
                 requirements_to_process, locals, calls, grown>>

Next ==
  \/ \E c \in Configurations : StartRun(c.fcs, c.reqs)
  \/ BeginCounty
  \/ EndRun
  \/ NullNoDataFields
  \/ ProcessRequirement
  \/ CollaboratorFails
  \/ RequirementKeyError
  \/ PurgeRequirements
  \/ PrepareExemptions
  \/ CalculateExemption
  \/ MissingFieldExit
  \/ PurgeExemptions
  \/ CreateRequirementsTable
  \/ CreateExemptionsTable

Spec == Init /\ [][Next]_vars

\* The same script on one county, over the richer reference data.
SpecEvaluation == InitEvaluation /\ [][Next]_vars

\* The same script on one county of two parcels.
SpecTwoParcels == InitTwoParcels /\ [][Next]_vars

\* A statement of the script other than its start: the interpreter goes on
\* to the next statement, and a call of a collaborator returns or raises.
Step ==
  \/ BeginCounty
  \/ EndRun
  \/ NullNoDataFields
  \/ ProcessRequirement
  \/ CollaboratorFails
  \/ RequirementKeyError
  \/ PurgeRequirements
  \/ PrepareExemptions
  \/ CalculateExemption
  \/ MissingFieldExit
  \/ PurgeExemptions
  \/ CreateRequirementsTable
  \/ CreateExemptionsTable

\* The script on the two counties over one set of reference data, a started
\* run going on until the process ends.
SpecTermination == InitTermination /\ [][Next]_vars /\ WF_vars(Step)

(***************************************************************************)
(* The properties of the script.                                           *)
(***************************************************************************)

\* The county pass in progress has run its exemption sweep, or is in it.
InSweep == pc \in {"sweep", "req_table", "ex_table"}

\* The sweep in progress has evaluated exemption number k on row i.
Evaluated(i, k) ==
  \/ pc \in {"req_table", "ex_table"}
  \/ pc = "sweep" /\ (i < row_i \/ (i = row_i /\ k < ex_i))

\* Three-valued AND: a 0 wins, then an unknown, else 1.
TriStateAnd(u) ==
  IF \E i \in DOMAIN u : u[i] = 0 THEN 0
  ELSE IF \E i \in DOMAIN u : u[i] = None THEN None
  ELSE 1

\* Three-valued OR: a 1 wins, then an unknown, else 0.
TriStateOr(v) ==
  IF \E i \in DOMAIN v : v[i] = 1 THEN 1
  ELSE IF \E i \in DOMAIN v : v[i] = None THEN None
  ELSE 0

\* C1: for every parcel and exemption the sweep has evaluated, with clause
\* values in {0, 1, unknown}, the stored exemption value is 0 if a clause value
\* is 0 (also when others are unknown), else unknown if one is unknown, else 1.
C1_TriStateAnd ==
  InSweep =>
    \A i \in DOMAIN output_parcels_fc.rows, k \in DOMAIN exemptions_keys :
      Evaluated(i, k) =>
        LET e == exemptions_keys[k]
            vals == output_parcels_fc.rows[i].vals
            u == check_requirements_of(vals, e)
        IN  (\A j \in DOMAIN u : u[j] \in Values)
              => vals[exemption_field_name(e)] = TriStateAnd(u)

\* C1's case: an evaluated exemption with a clause value 0 and another unknown,
\* stored as 0.
C1_Witness ==
  /\ InSweep
  /\ \E i \in DOMAIN output_parcels_fc.rows, k \in DOMAIN exemptions_keys :
       /\ Evaluated(i, k)
       /\ LET e == exemptions_keys[k]
              vals == output_parcels_fc.rows[i].vals
              u == check_requirements_of(vals, e)
          IN  /\ \E j \in DOMAIN u : u[j] = 0
              /\ \E j \in DOMAIN u : u[j] = None
              /\ vals[exemption_field_name(e)] = 0

\* The OR groups of an exemption.
OrGroups(e) == {c \in Range(exemptions[e]) : c.list}

\* C2: for every OR group whose member fields exist on a parcel, with member
\* values in {0, 1, unknown}, the clause value is 1 if a member is 1, else
\* unknown if one is unknown, else 0; an evaluated exemption that consists of
\* one OR group stores that value.
C2_TriStateOr ==
  /\ \A fc \in DOMAIN output_fcs, e \in ExemptionIds :
       \A i \in DOMAIN output_fcs[fc].rows, c \in OrGroups(e) :
         {requirements[r] : r \in Range(c.ids)} \subseteq output_fcs[fc].fields
           => clause_value(output_fcs[fc].rows[i].vals, c)
                = TriStateOr([j \in DOMAIN c.ids |->
                                output_fcs[fc].rows[i].vals[requirements[c.ids[j]]]])
  /\ InSweep =>
       \A i \in DOMAIN output_parcels_fc.rows, k \in DOMAIN exemptions_keys :
         LET e == exemptions_keys[k]
             vals == output_parcels_fc.rows[i].vals
         IN  Evaluated(i, k) /\ Len(exemptions[e]) = 1 /\ exemptions[e][1].list
               => vals[exemption_field_name(e)]
                    = TriStateOr([j \in DOMAIN exemptions[e][1].ids |->
                                    vals[requirements[exemptions[e][1].ids[j]]]])

\* C2's case: an evaluated exemption of one OR group with an unknown member,
\* a 0 member and no member 1, stored as unknown.
C2_Witness ==
  /\ InSweep
  /\ \E i \in DOMAIN output_parcels_fc.rows, k \in DOMAIN exemptions_keys :
       LET e == exemptions_keys[k]
           vals == output_parcels_fc.rows[i].vals
           ids == exemptions[e][1].ids
       IN  /\ Evaluated(i, k) /\ Len(exemptions[e]) = 1 /\ exemptions[e][1].list
           /\ \E j \in DOMAIN ids : vals[requirements[ids[j]]] = None
           /\ \E j \in DOMAIN ids : vals[requirements[ids[j]]] = 0
           /\ \A j \in DOMAIN ids : vals[requirements[ids[j]]] # 1
           /\ vals[exemption_field_name(e)] = None

\* The number of exemptions a row stores as exactly 1.
SatisfiedExemptions(vals) ==
  Cardinality({e \in ExemptionIds : vals[exemption_field_name(e)] = 1})

\* The sweep in progress has not finished row i of feature class fc yet.
BeingSwept(fc, i) ==
  pc = "sweep" /\ fc = input_parcels_fc_name /\ i >= row_i

\* C3: once a sweep has finished a parcel, and after any number of repeated
\* sweeps, its exemptions_count is the number of its exemptions stored as 1.
C3_CountConsistency ==
  \A fc \in DOMAIN output_fcs :
    "exemptions_count" \in output_fcs[fc].fields =>
      \A i \in DOMAIN output_fcs[fc].rows :
        \/ BeingSwept(fc, i)
        \/ output_fcs[fc].rows[i].vals["exemptions_count"]
             = SatisfiedExemptions(output_fcs[fc].rows[i].vals)

\* C3's case: a county whose sweep has completed twice in a row, with a parcel
\* that meets an exemption and a parcel's exemption that is unknown.
C3_Witness ==
  /\ pc = "loop"
  /\ prev_pass # NoPass
  /\ \E i \in DOMAIN output_fcs[last_pass.fc].rows :
       LET vals == output_fcs[last_pass.fc].rows[i].vals
       IN  /\ vals["exemptions_count"] >= 1
           /\ \E e \in ExemptionIds : vals[exemption_field_name(e)] = None

\* The requirements masked for a feature class: those its county has no data
\* for, and those no county has data for.
MaskedFor(fc) ==
  Range(requirements_with_no_data[county_name_of(fc)])
    \cup Range(requirements_with_no_data["ALL_COUNTIES"])

\* calculate_requirements has returned for the county the main loop is at.
RequirementPassDone == pc \in {"ex_prep", "sweep", "req_table", "ex_table"}

\* C4: once calculate_requirements has returned for a county, every requirement
\* masked for it has its field on the county's parcels, null on every parcel,
\* whatever the field held before and whatever the collaborator would answer.
C4_MaskingDominance ==
  RequirementPassDone =>
    \A r \in MaskedFor(input_parcels_fc_name) :
      /\ requirements[r] \in output_parcels_fc.fields
      /\ \A i \in DOMAIN output_parcels_fc.rows :
           output_parcels_fc.rows[i].vals[requirements[r]] = None

\* C4's case: the pass of a county has just returned, a selected requirement is
\* masked for it, its collaborator would answer 1 for a parcel, null is stored.
C4_Witness ==
  /\ pc = "ex_prep"
  /\ \E r \in MaskedFor(input_parcels_fc_name) \cap Range(requirements_to_process) :
       \E i \in DOMAIN output_parcels_fc.rows :
         /\ data[input_parcels_fc_name][i][r] = 1
         /\ output_parcels_fc.rows[i].vals[requirements[r]] = None

\* The requirements the pass in progress has been through.
Processed ==
  IF pc = "req"
    THEN {requirements_to_process[j] : j \in 1..(req_i - 1)}
    ELSE Range(requirements_to_process)

\* C5: during the requirement pass of a county and after it, do_command has
\* not been invoked for a requirement masked for the county, and has been
\* invoked exactly once for each selected, unmasked requirement the pass has
\* been through (all the selected ones once the pass has returned).
C5_CollaboratorCalls ==
  (pc = "req" \/ RequirementPassDone) =>
    /\ \A r \in RequirementIds : calls[r] \in {0, 1}
    /\ {r \in RequirementIds : calls[r] = 1}
         = (Processed \cap RequirementIds) \ MaskedFor(input_parcels_fc_name)

\* C5's case: a pass over every requirement has returned for a county that
\* masks some of them: none of the masked was invoked, every other one once.
C5_Witness ==
  /\ pc = "ex_prep"
  /\ Range(requirements_to_process) = RequirementIds
  /\ \E r \in MaskedFor(input_parcels_fc_name) : calls[r] = 0
  /\ \E r \in RequirementIds : calls[r] = 1

\* The sweep is about to evaluate an exemption on a row that lacks the field
\* of a requirement the exemption refers to, in a clause or in an OR group.
AtMissingField ==
  /\ pc = "sweep"
  /\ row_i <= Len(output_parcels_fc.rows)
  /\ \E c \in Range(exemptions[exemptions_keys[ex_i]]) :
       \E j \in DOMAIN c.ids :
         requirements[c.ids[j]] \notin output_parcels_fc.fields

\* C6: when the sweep is at an exemption one of whose requirement fields is
\* missing, its next step ends the run: no exemption is stored, no parcel
\* table and no shared table changes, the main loop is left; and from the
\* aborted run nothing is processed or appended until a new run is started.
C6_MissingFieldAborts ==
  [][/\ AtMissingField =>
          /\ pc' = "exited"
          /\ output_fcs' = output_fcs
          /\ dev_tables' = dev_tables
          /\ dev_team_fcs' = dev_team_fcs
          /\ input_parcels_fc_list' = <<>>
     /\ pc = "exited" =>
          /\ output_fcs' = output_fcs
          /\ dev_tables' = dev_tables
          /\ pc' = "loop" /\ count' = 1]_vars

\* C6's case: a run has aborted on a missing field while a shared table holds
\* the rows of a county processed before.
C6_Witness ==
  /\ pc = "exited"
  /\ dev_tables.requirements.exists
  /\ dev_tables.requirements.rows # <<>>

KeysUnique(table) ==
  \A i, j \in DOMAIN table.rows :
    table.rows[i].key = table.rows[j].key => i = j

GrownBy(before, after, fc, kept) ==
  /\ kept \cup before.cols \subseteq after.cols
  /\ Len(after.rows) = Len(before.rows) + Len(fc.rows)
  /\ \A i \in DOMAIN before.rows :
       /\ after.rows[i] = before.rows[i]
       /\ \A f \in after.cols \ before.cols : after.rows[i].vals[f] = None
  /\ \A i \in DOMAIN fc.rows :
       LET row == after.rows[Len(before.rows) + i]
       IN  /\ row.key = fc.rows[i].key
           /\ \A f \in kept : row.vals[f] = fc.rows[i].vals[f]

\* C9: when a county is materialised into an existing requirements table, or
\* an existing exemptions table, every requirement field, or exemption field,
\* of the county's parcels is a column of the table afterwards, including one
\* the table lacked; the rows of the counties processed before are unchanged
\* and null in the new column; the county's rows carry their values in it.
C9_SchemaGrowth ==
  [][/\ (pc = "req_table" /\ dev_tables.requirements.exists) =>
          GrownBy(dev_tables.requirements, dev_tables'.requirements,
                  output_parcels_fc,
                  output_parcels_fc.fields \cap requirements_values)
     /\ (pc = "ex_table" /\ dev_tables.exemptions.exists) =>
          GrownBy(dev_tables.exemptions, dev_tables'.exemptions,
                  output_parcels_fc,
                  output_parcels_fc.fields \cap exemption_fields)]_vars

\* C9's case: both shared tables have just grown by a column while holding
\* the rows of a county processed before; the new requirement column holds a
\* value in a row of the county just materialised.
C9_Witness ==
  /\ pc = "loop"
  /\ count > 1
  /\ \E f \in grown :
       /\ \E i \in DOMAIN dev_tables.requirements.rows :
            /\ dev_tables.requirements.rows[i].county_name
                 # CountyNameAttr(last_pass.fc)
            /\ dev_tables.requirements.rows[i].vals[f] = None
       /\ \E i \in DOMAIN dev_tables.requirements.rows :
            /\ dev_tables.requirements.rows[i].county_name
                 = CountyNameAttr(last_pass.fc)
            /\ dev_tables.requirements.rows[i].vals[f] # None
  /\ \E i, j \in DOMAIN dev_tables.exemptions.rows :
       \E f \in exemption_fields \ EarlierExemptionFields :
         /\ dev_tables.exemptions.rows[i].county_name
              # dev_tables.exemptions.rows[j].county_name
         /\ f \in dev_tables.exemptions.cols
         /\ dev_tables.exemptions.rows[j].vals[f] # None

\* The rows of feature class fc are in the shared table.
MaterialisedIn(table, fc) ==
  /\ table.exists
  /\ \A i \in DOMAIN output_fcs[fc].rows :
       \E j \in DOMAIN table.rows : table.rows[j].key = output_fcs[fc].rows[i].key

\* C10: a run is at one county at a time, and within a county: while the
\* requirement pass runs nothing else of the county has run; the sweep runs
\* only after the pass has been through the whole selection and has returned;
\* the requirements table is materialised only after the sweep has been
\* through every exemption of every parcel and has returned, the exemptions
\* table only after the requirements table; and the main loop is back at its
\* head for the next county only after both tables hold the county's rows.
C10_RunOrder ==
  /\ pc \in {"mask", "req", "ex_prep", "sweep", "req_table", "ex_table"}
       => count \in 1..Len(input_parcels_fc_list)
  /\ pc \in {"mask", "req"} => done_log = <<>>
  /\ pc \in {"ex_prep", "sweep"} =>
       /\ done_log = <<"calculate_requirements">>
       /\ req_i = Len(requirements_to_process) + 1
  /\ pc = "req_table" =>
       /\ done_log = <<"calculate_requirements", "calculate_exemptions">>
       /\ row_i = Len(output_parcels_fc.rows) + 1
       /\ ex_i = 1
  /\ pc = "ex_table" =>
       /\ done_log = <<"calculate_requirements", "calculate_exemptions",
                       "create_requirements_table_dev_team">>
       /\ MaterialisedIn(dev_tables.requirements, input_parcels_fc_name)
  /\ (pc = "loop" /\ count > 1) =>
       /\ done_log = <<"calculate_requirements", "calculate_exemptions",
                       "create_requirements_table_dev_team",
                       "create_exemptions_table_dev_team">>
       /\ MaterialisedIn(dev_tables.requirements, input_parcels_fc_list[count - 1])
       /\ MaterialisedIn(dev_tables.exemptions, input_parcels_fc_list[count - 1])

\* C10's case: a run over two counties is through with the first and at the
\* head of the main loop for the second.
C10_Witness ==
  /\ pc = "loop"
  /\ count = 2
  /\ Len(input_parcels_fc_list) = 2
  /\ MaterialisedIn(dev_tables.exemptions, input_parcels_fc_list[1])
  /\ ~output_fcs[input_parcels_fc_list[2]].exists

\* A run is in progress.
Running ==
  pc \in {"loop", "mask", "req", "ex_prep", "sweep", "req_table", "ex_table"}

\* The place of a feature class name in ascending order of the names.
NameRank(fc) == CHOOSE i \in DOMAIN SortedFcNames : SortedFcNames[i] = fc

\* The list is in strictly ascending order of the names.
Ascending(list) ==
  \A i, j \in DOMAIN list : i < j => NameRank(list[i]) < NameRank(list[j])

\* C11 as stated: whatever the selection, wildcard or explicit list in any
\* order, the feature classes of a run are processed in ascending order of
\* their names.
C11_AlwaysSortedOrder ==
  Running => Ascending(input_parcels_fc_list)

\* C11, amended: a run processes the feature classes in the order of its
\* list, one position at a time; for the wildcard selection the list is every
\* feature class of the input in ascending order of the names, for an explicit
\* list it is the list as given.
C11_SelectionOrder ==
  Running =>
    /\ configured.all =>
         /\ Ascending(input_parcels_fc_list)
         /\ Range(input_parcels_fc_list) = DOMAIN input_gdb
    /\ ~configured.all => input_parcels_fc_list = configured.list
    /\ count \in 1..(Len(input_parcels_fc_list) + 1)
    /\ \A i \in 1..(count - 1) : output_fcs[input_parcels_fc_list[i]].exists

\* C11's case: a run with an explicit list that is not in ascending order is
\* through with its first feature class, the greater name, and at the second.
C11_Witness ==
  /\ pc = "loop"
  /\ count = 2
  /\ ~configured.all
  /\ Len(input_parcels_fc_list) = 2
  /\ ~Ascending(input_parcels_fc_list)

\* The requirement selection of the run in progress holds an identifier that
\* is no key of the requirements registry.
UnknownSelected ==
  /\ Running
  /\ \E j \in DOMAIN requirements_to_process :
       requirements_to_process[j] \notin RequirementIds

\* C12: a run whose explicit requirement selection holds an identifier the
\* registry lacks is rejected at startup: no step of it adds a parcel table
\* or adds or changes a field of one, invokes a collaborator, or changes a
\* shared table.
C12_RejectedAtStartup ==
  [][UnknownSelected =>
       /\ output_fcs' = output_fcs
       /\ calls' = calls
       /\ dev_tables' = dev_tables]_vars

\* The main loop is at its head with a feature class still to process.
AtLoopHead == pc = "loop" /\ count <= Len(input_parcels_fc_list)

\* C14 as stated: a feature class whose output exists when the main loop
\* reaches it is taken as processed: the loop goes on to the next feature
\* class and nothing of the existing one is calculated or materialised again.
C14_SkipsExistingOutput ==
  [][(AtLoopHead /\ output_fcs[input_parcels_fc_list[count]].exists) =>
       /\ pc' = "loop"
       /\ count' = count + 1
       /\ output_fcs' = output_fcs
       /\ dev_tables' = dev_tables]_vars

\* C14, amended: a run that is started, also after an interrupted one, begins
\* at the first feature class of its list; a feature class whose output
\* exists is not copied again, its fields and values are what the pass starts
\* from, and its pass is run again like that of any other feature class.
C14_RestartRecomputes ==
  [][/\ (~Running /\ pc' # pc) => (pc' = "loop" /\ count' = 1)
     /\ AtLoopHead =>
          /\ pc' = "mask"
          /\ count' = count
          /\ output_fcs[input_parcels_fc_list[count]].exists =>
               /\ output_fcs' = output_fcs
               /\ existing_output_fields'
                    = output_fcs[input_parcels_fc_list[count]].fields]_vars

\* C14's case: a run was interrupted in the requirement pass of a feature
\* class it had copied; a later run is in the pass of that feature class
\* again, on the fields the interrupted pass left, with no sweep done yet.
C14_Witness ==
  /\ pc = "mask"
  /\ count = 1
  /\ input_parcels_fc_name = "YOLO_Parcels"
  /\ existing_output_fields = output_parcels_fc.fields
  /\ output_parcels_fc.fields = {requirements["9.5"], requirements["2.6"]}

\* C15: a step in which the collaborator of a requirement fails ends the run:
\* the call has been made once and is not made again, no shared table
\* changes, no sweep and no append of this pass follows; after it nothing
\* happens until a new run is started, which begins at its first feature
\* class with no collaborator call counted, so that this feature class, when
\* the new run is over it, is recomputed from the start of its pass.
C15_CollaboratorFailure ==
  [][/\ CollaboratorFails =>
          /\ pc' = "crashed"
          /\ \A r \in RequirementIds : calls'[r] <= 1
          /\ dev_tables' = dev_tables
          /\ done_log' = <<>>
          /\ input_parcels_fc_list' = <<>>
     /\ pc = "crashed" =>
          /\ pc' = "loop"
          /\ count' = 1
          /\ calls' = NoCalls
          /\ done_log' = <<>>
          /\ output_fcs' = output_fcs
          /\ dev_tables' = dev_tables]_vars

\* C15's case: the collaborator of 2.6 has failed in a pass over every
\* requirement, after the requirements before it were calculated; the run is
\* dead with no sweep and no append done for the feature class.
C15_Witness ==
  /\ pc = "crashed"
  /\ calls["2.6"] = 1
  /\ calls[requirements_keys[1]] = 1
  /\ requirements_keys[1] # "2.6"
  /\ done_log = <<>>
  /\ \E fc \in DOMAIN output_fcs :
       /\ output_fcs[fc].exists
       /\ requirements["2.6"] \in output_fcs[fc].fields
       /\ "exemptions_count" \notin output_fcs[fc].fields

\* C16: every requirement identifier in the clause list of an exemption, as
\* a single clause or as a member of an OR group, is a key of requirements,
\* and so names a field that a row of any parcel table can hold a value for.
C16_ReferentialIntegrity ==
  \A e \in ExemptionIds :
    \A k \in DOMAIN exemptions[e] :
      \A j \in DOMAIN exemptions[e][k].ids :
        /\ exemptions[e][k].ids[j] \in DOMAIN requirements
        /\ \A fc \in DOMAIN output_fcs :
             \A i \in DOMAIN output_fcs[fc].rows :
               requirements[exemptions[e][k].ids[j]]
                 \in DOMAIN output_fcs[fc].rows[i].vals

\* C16's case: a sweep has gone through every exemption of every parcel of a
\* feature class, resolving each single clause and each OR-group member to
\* its field.
C16_Witness ==
  /\ pc = "req_table"
  /\ \E e \in ExemptionIds : OrGroups(e) # {} /\ OrGroups(e) # Range(exemptions[e])
  /\ \A e \in ExemptionIds :
       \A k \in DOMAIN exemptions[e] :
         \A j \in DOMAIN exemptions[e][k].ids :
           requirements[exemptions[e][k].ids[j]] \in output_parcels_fc.fields

\* The length rename_fields compares a standardized field name with (line 988).
FieldNameLimit == 31

\* No two requirement identifiers have the same field name.
FieldNamesUnique ==
  \A r1, r2 \in RequirementIds :
    requirements[r1] = requirements[r2] => r1 = r2

\* C17 as stated: for the fields of any parcel table, the field name of every
\* requirement is unique in the registry and at most 31 characters long.
C17_UniqueAndShort ==
  \A fc \in DOMAIN output_fcs :
    /\ FieldNamesUnique
    /\ \A r \in RequirementIds : Len(requirements[r]) <= FieldNameLimit

\* C17, amended: the field name of every requirement is unique in the
\* registry, so the requirement fields of a parcel table are as many as the
\* requirements they were added for; the names are not bounded by 31
\* characters.
C17_UniqueFieldNames ==
  \A fc \in DOMAIN output_fcs :
    /\ FieldNamesUnique
    /\ \A ids \in {Range(requirements_keys)} :
         {requirements[r] : r \in ids} \subseteq output_fcs[fc].fields
           => Cardinality(output_fcs[fc].fields \cap requirements_values)
                = Cardinality(ids)

\* C17's case: a pass over every requirement has given a parcel table one
\* field per requirement, among them a field whose name is longer than 31
\* characters.
C17_Witness ==
  /\ pc = "ex_prep"
  /\ Cardinality(output_parcels_fc.fields \cap requirements_values)
       = Cardinality(RequirementIds)
  /\ \E r \in RequirementIds :
       /\ Len(requirements[r]) > FieldNameLimit
       /\ requirements[r] \in output_parcels_fc.fields

\* The requirement the requirement loop is at.
AtRequirement == requirements_to_process[req_i]

\* The requirement is listed for the county of fc, or for ALL_COUNTIES.
InMaskUnion(fc, r) ==
  \/ r \in Range(requirements_with_no_data[county_name_of(fc)])
  \/ r \in Range(requirements_with_no_data["ALL_COUNTIES"])

\* C18: whenever the requirement loop of a county gets through a requirement,
\* the requirement has been treated as masked (no invocation of do_command,
\* its field null in every row of the county) exactly when it is listed for
\* the county or for ALL_COUNTIES; the two lists are put together, not
\* intersected.
C18_MaskUnion ==
  [][(pc = "req" /\ pc' = "req" /\ req_i' = req_i + 1)
       => LET fc == input_parcels_fc_name
              r == AtRequirement
          IN  /\ InMaskUnion(fc, r) <=> calls' = calls
              /\ ~InMaskUnion(fc, r) <=> calls'[r] = calls[r] + 1
              /\ InMaskUnion(fc, r)
                   => \A i \in DOMAIN output_fcs'[fc].rows :
                        output_fcs'[fc].rows[i].vals[requirements[r]] = None]_vars

\* C18's case: in one requirement pass of Kings the loop is through a
\* requirement listed for the county (2.6, not invoked) and through one that
\* is listed nowhere (invoked).
C18_Witness ==
  /\ pc = "req"
  /\ county_name_of(input_parcels_fc_name) = "kings"
  /\ "2.6" \in Processed
  /\ InMaskUnion(input_parcels_fc_name, "2.6")
  /\ calls["2.6"] = 0
  /\ \E r \in Processed :
       /\ ~InMaskUnion(input_parcels_fc_name, r)
       /\ calls[r] = 1

\* The pass of county fc is through its exemption sweep, or was the last pass
\* to complete.
PassCompleted(fc) ==
  \/ pc \in {"req_table", "ex_table"} /\ fc = input_parcels_fc_name
  \/ pc \in {"loop", "finished"} /\ last_pass.fc = fc

\* The tri-state value of exemption e over the requirement values of a row:
\* the three-valued AND of its clauses, an OR group being the three-valued
\* OR of its members.
TriStateExemption(vals, e) ==
  TriStateAnd(
    [k \in DOMAIN exemptions[e] |->
       IF exemptions[e][k].list
         THEN TriStateOr([j \in DOMAIN exemptions[e][k].ids |->
                            vals[requirements[exemptions[e][k].ids[j]]]])
         ELSE vals[requirements[exemptions[e][k].ids[1]]]])

\* C19: after the pass of a county has completed, whichever requirements it
\* was run for ("*" or a list), every exemption field of every parcel of the
\* county holds the tri-state value of the requirement values the parcel
\* stores; no exemption is left out of the sweep.
C19_NoStaleExemptions ==
  \A fc \in DOMAIN output_fcs :
    PassCompleted(fc) =>
      /\ exemption_fields \subseteq output_fcs[fc].fields
      /\ \A i \in DOMAIN output_fcs[fc].rows, e \in ExemptionIds :
           output_fcs[fc].rows[i].vals[exemption_field_name(e)]
             = TriStateExemption(output_fcs[fc].rows[i].vals, e)

\* C19's case: a pass for the one requirement 2.6 has completed its sweep,
\* and an exemption that does not refer to 2.6 holds a derived value.
C19_Witness ==
  /\ pc = "ex_table"
  /\ requirements_to_process = <<"2.6">>
  /\ \E e \in ExemptionIds, i \in DOMAIN output_parcels_fc.rows :
       /\ requirements["2.6"] \notin fields_read(e)
       /\ output_parcels_fc.rows[i].vals[exemption_field_name(e)] = 1
       /\ TriStateExemption(output_parcels_fc.rows[i].vals, e) = 1

\* The rows of a shared table that belong to the county of fc.
CountyRows(table, fc) ==
  {i \in DOMAIN table.rows : table.rows[i].county_name = CountyNameAttr(fc)}

\* The step appends the rows of the county in progress to shared table t,
\* which existed before the step.
AppendsTo(t) ==
  /\ pc = (IF t = "requirements" THEN "req_table" ELSE "ex_table")
  /\ pc' # pc
  /\ dev_tables[t].exists

\* The function of the loop body that purges shared table t.
PurgerOf(t) ==
  IF t = "requirements" THEN "calculate_requirements" ELSE "calculate_exemptions"

ReconcilesSchema(t) ==
  /\ pc = (IF t = "requirements" THEN "req_table" ELSE "ex_table")
  /\ pc' # pc
  /\ dev_tables[t].exists

\* The fields of the county's parcels the create function of table t looks at.
ReconciledFields(t) ==
  output_parcels_fc.fields
    \cap (IF t = "requirements" THEN requirements_values ELSE exemption_fields)

\* C21: when a county is materialised into an existing shared table, the
\* columns of the table afterwards are its columns before and the fields of
\* the county's parcels it lacked, and AddField_management is called for
\* exactly the fields the table lacked, for none it already has.
C21_AddsOnlyAbsentColumns ==
  [][\A t \in {"requirements", "exemptions"} :
       ReconcilesSchema(t) =>
         /\ dev_tables'[t].cols = dev_tables[t].cols \cup ReconciledFields(t)
         /\ add_field_calls(dev_tables[t], ReconciledFields(t))
              = ReconciledFields(t) \ dev_tables[t].cols]_vars

\* The step is an invocation of the arcpy method of requirement r on the
\* county in progress.
InvokesArcpyMethod(r) ==
  /\ pc = "req"
  /\ pc' = "req"
  /\ req_i' = req_i + 1
  /\ AtRequirement = r
  /\ r \in ArcpyFunctionIds
  /\ calls'[r] = calls[r] + 1

\* The methods that select by HAVE_THEIR_CENTER_IN and count the selection
\* as met ("Yes = 1, No = 0").
YesIsOne == {"0.1", "2.1", "2.2", "2.3", "2.5", "2.7"}

FeedNoExemption == {"0.1", "8.6", "9.7", "9.8"}

\* Two rows hold the same value for every requirement but those that feed no
\* exemption.
SameButUnreferenced(v, w) ==
  \A r \in RequirementIds \ FeedNoExemption : v[requirements[r]] = w[requirements[r]]

\* C23: no clause of an exemption refers to 0.1 (nor to 8.6, 9.7 or 9.8), and
\* once the sweep of a county is through, two of its parcels whose requirement
\* values differ in those requirements only hold the same value for every
\* exemption and the same exemptions_count.
C23_UnreferencedRequirements ==
  /\ \A fc \in DOMAIN output_fcs : FeedNoExemption \cap ReferencedIds = {}
  /\ pc \in {"req_table", "ex_table"} =>
       \A i, j \in DOMAIN output_parcels_fc.rows :
         LET v == output_parcels_fc.rows[i].vals
             w == output_parcels_fc.rows[j].vals
         IN  SameButUnreferenced(v, w) =>
               /\ \A e \in ExemptionIds :
                    v[exemption_field_name(e)] = w[exemption_field_name(e)]
               /\ v["exemptions_count"] = w["exemptions_count"]

\* C23's case: the sweep of a county is through; two of its parcels differ in
\* 0.1 and in nothing an exemption refers to, and hold the same exemptions,
\* of which one is met.
C23_Witness ==
  /\ pc = "req_table"
  /\ \E i, j \in DOMAIN output_parcels_fc.rows :
       LET v == output_parcels_fc.rows[i].vals
           w == output_parcels_fc.rows[j].vals
       IN  /\ v[requirements["0.1"]] = 1
           /\ w[requirements["0.1"]] = 0
           /\ SameButUnreferenced(v, w)
           /\ \A e \in ExemptionIds :
                v[exemption_field_name(e)] = w[exemption_field_name(e)]
           /\ v["exemptions_count"] = w["exemptions_count"]
           /\ v["exemptions_count"] >= 1

\* The rows of two versions of a parcel table are the same parcels: as many,
\* with the same parcel id and county name at every OBJECTID.
SameParcels(before, after) ==
  /\ Len(after.rows) = Len(before.rows)
  /\ \A i \in DOMAIN before.rows :
       /\ after.rows[i].key = before.rows[i].key
       /\ after.rows[i].county_name = before.rows[i].county_name

\* C24: a wide parcel table comes into existence only as the copy of its
\* source, at the head of the loop body of its county; a table that exists
\* is left as it is there, and no step of any run removes it, removes one of
\* its fields or changes the parcels it holds.
C24_CopiedOnce ==
  [][\A fc \in DOMAIN output_fcs :
       /\ (~output_fcs[fc].exists /\ output_fcs'[fc].exists) =>
            /\ pc = "loop"
            /\ fc = input_parcels_fc_name
            /\ output_fcs'[fc] = CopiedFc(input_gdb[fc])
       /\ output_fcs[fc].exists =>
            /\ output_fcs'[fc].exists
            /\ output_fcs[fc].fields \subseteq output_fcs'[fc].fields
            /\ SameParcels(output_fcs[fc], output_fcs'[fc])
            /\ pc = "loop" => output_fcs'[fc] = output_fcs[fc]]_vars

\* C24's case: a run has just passed the head of the loop body for a county
\* whose table an earlier run filled: the table has its exemption fields and
\* a parcel with a calculated exemption.
C24_Witness ==
  /\ pc = "mask"
  /\ exemption_fields \subseteq output_parcels_fc.fields
  /\ requirements_values \subseteq output_parcels_fc.fields
  /\ \E i \in DOMAIN output_parcels_fc.rows, e \in ExemptionIds :
       output_parcels_fc.rows[i].vals[exemption_field_name(e)] = 1

\* C25: when calculate_requirements is past its no-data loop and in its loop
\* over requirements_to_process, the field of every requirement listed for
\* the county (or for ALL_COUNTIES) exists and is null on every parcel of the
\* county, also for the listed requirements that are not in
\* requirements_to_process.
C25_MaskingIgnoresSelection ==
  pc = "req" =>
    \A r \in Range(requirements_with_no_data[county_name_of(input_parcels_fc_name)])
             \cup Range(requirements_with_no_data["ALL_COUNTIES"]) :
      /\ requirements[r] \in output_parcels_fc.fields
      /\ \A i \in DOMAIN output_parcels_fc.rows :
           output_parcels_fc.rows[i].vals[requirements[r]] = None

\* C25's case: a run for the one requirement 2.6 is past the no-data loop of
\* Kings and at the first requirement; 3.9 is listed for Kings and not
\* selected, its field was not among those of the copy, and it exists and is
\* null where its method would write 1.
C25_Witness ==
  /\ pc = "req"
  /\ req_i = 1
  /\ requirements_to_process = <<"2.6">>
  /\ county_name_of(input_parcels_fc_name) = "kings"
  /\ InMaskUnion(input_parcels_fc_name, "3.9")
  /\ requirements["3.9"] \notin CopiedFc(input_gdb[input_parcels_fc_name]).fields
  /\ requirements["3.9"] \in output_parcels_fc.fields
  /\ \E i \in DOMAIN output_parcels_fc.rows :
       /\ written_value(data[input_parcels_fc_name][i]["3.9"], "3.9") = 1
       /\ output_parcels_fc.rows[i].vals[requirements["3.9"]] = None

\* The script is in calculate_requirements.
InCalculateRequirements == pc \in {"mask", "req"}

\* The requirements calculate_requirements has no business with for the
\* county in progress: not in requirements_to_process and not listed as
\* without data.
Untouchable ==
  (RequirementIds \ Range(requirements_to_process))
    \ MaskedFor(input_parcels_fc_name)

\* C26: no step of calculate_requirements adds the field of a requirement
\* that is neither in requirements_to_process nor listed as without data for
\* the county, and none changes the value of such a field on a parcel.
C26_RequirementPassFrame ==
  [][(InCalculateRequirements /\ output_fcs' # output_fcs) =>
       \A r \in Untouchable :
         LET fc == input_parcels_fc_name
             f == requirements[r]
         IN  /\ f \in output_fcs'[fc].fields <=> f \in output_fcs[fc].fields
             /\ \A i \in DOMAIN output_fcs[fc].rows :
                  output_fcs'[fc].rows[i].vals[f] = output_fcs[fc].rows[i].vals[f]]_vars

\* C26's case: calculate_requirements has returned from a run for the one
\* requirement 2.6 on Yolo; 2.5 is neither selected nor listed, its field
\* holds the 1 an earlier run calculated; 0.1 is neither selected nor
\* listed, and the table has no field for it; the field of 2.6 is calculated.
C26_Witness ==
  /\ pc = "ex_prep"
  /\ requirements_to_process = <<"2.6">>
  /\ county_name_of(input_parcels_fc_name) = "yolo"
  /\ {"0.1", "2.5"} \subseteq Untouchable
  /\ requirements["0.1"] \notin output_parcels_fc.fields
  /\ requirements["2.5"] \in output_parcels_fc.fields
  /\ calls["2.6"] = 1
  /\ \E i \in DOMAIN output_parcels_fc.rows :
       /\ output_parcels_fc.rows[i].vals[requirements["2.5"]] = 1
       /\ output_parcels_fc.rows[i].vals[requirements["2.6"]] # None

\* The step is one of calculate_requirements, or of calculate_exemptions
\* before its purge: the no-data loop, a requirement, the purge of the
\* requirements table, the preparation of the sweep, an exemption of a row,
\* or an abort.
BeforeExemptionsPurge ==
  \/ pc \in {"mask", "req", "ex_prep"}
  \/ pc = "sweep" /\ pc' # main_loop_after("calculate_exemptions")

OtherRows(table, fc) ==
  SelectSeq(table.rows, LAMBDA r : r.county_name # CountyNameAttr(fc))

\* C28: no step of the pass of a county changes, in a shared table that
\* exists, the rows of the other counties: they stay as many, in the same
\* order, with the same values in every column.
C28_MaterialisationFrame ==
  [][\A t \in {"requirements", "exemptions"} :
       (pc \in {"mask", "req", "ex_prep", "sweep", "req_table", "ex_table"}
          /\ dev_tables[t].exists /\ dev_tables'[t] # dev_tables[t]) =>
         OtherRows(dev_tables'[t], input_parcels_fc_name)
           = OtherRows(dev_tables[t], input_parcels_fc_name)]_vars

\* C28's case: a county has been purged from and appended to both shared
\* tables twice in a row, and the tables hold the rows of another county,
\* with a calculated requirement and a calculated exemption.
C28_Witness ==
  /\ pc = "loop"
  /\ last_pass # NoPass
  /\ prev_pass # NoPass
  /\ \E i \in DOMAIN dev_tables.requirements.rows, r \in RequirementIds :
       /\ dev_tables.requirements.rows[i].county_name # CountyNameAttr(last_pass.fc)
       /\ dev_tables.requirements.rows[i].vals[requirements[r]] = 1
  /\ \E i \in DOMAIN dev_tables.exemptions.rows, e \in ExemptionIds :
       /\ dev_tables.exemptions.rows[i].county_name # CountyNameAttr(last_pass.fc)
       /\ dev_tables.exemptions.rows[i].vals[exemption_field_name(e)] = 1

\* The step is the purge of shared table t at the end of the function that
\* calculates what the table holds.
PurgeStep(t) ==
  /\ dev_tables[t].exists
  /\ IF t = "requirements"
       THEN pc = "req" /\ pc' = main_loop_after("calculate_requirements")
       ELSE pc = "sweep" /\ pc' = main_loop_after("calculate_exemptions")

\* The county name the purge goes by: that of the parcel with OBJECTID = 1.
PurgeKey == output_parcels_fc.rows[1].county_name

\* The rows of a shared table that stem from the parcels of fc.
RowsOfFc(table, fc) ==
  {i \in DOMAIN table.rows : \E j \in DOMAIN fc.rows : table.rows[i].key = fc.rows[j].key}

\* C29: the purge of a shared table removes the rows whose county_name is
\* that of the county's parcel with OBJECTID = 1 and keeps every other row,
\* in order; a row of the county's own parcels that carries another
\* county_name stays in the table, so that the county's rows are all gone
\* only if all of them carried that name.
C29_PurgeKey ==
  [][\A t \in {"requirements", "exemptions"} :
       PurgeStep(t) =>
         /\ dev_tables'[t].rows
              = SelectSeq(dev_tables[t].rows, LAMBDA r : r.county_name # PurgeKey)
         /\ RowsOfFc(dev_tables'[t], output_parcels_fc) = {}
              <=> \A i \in RowsOfFc(dev_tables[t], output_parcels_fc) :
                    dev_tables[t].rows[i].county_name = PurgeKey]_vars

\* C29's case: the requirements table has just been purged for a county
\* whose second parcel carries another county name; the row of that parcel
\* from the pass before is still in the table, the row of the first parcel
\* is gone.
C29_Witness ==
  /\ pc = "ex_prep"
  /\ dev_tables.requirements.exists
  /\ output_parcels_fc.rows[2].county_name # PurgeKey
  /\ \E i \in DOMAIN dev_tables.requirements.rows :
       dev_tables.requirements.rows[i].key = output_parcels_fc.rows[2].key
  /\ \A i \in DOMAIN dev_tables.requirements.rows :
       dev_tables.requirements.rows[i].key # output_parcels_fc.rows[1].key

\* The process has ended: the main loop is through, or the process died.
Ended == pc \in {"finished", "crashed", "exited"}

\* The four calls of the body of the main loop, in the order of the body.
LoopBody ==
  <<"calculate_requirements", "calculate_exemptions",
    "create_requirements_table_dev_team", "create_exemptions_table_dev_team">>

\* C30: a started run ends: it finishes, unless a fatal condition (an
\* exception of a collaborator, an unknown requirement, a missing field) ends
\* the process before.  The main loop moves on to the next feature class of
\* the list only at the end of a loop body in which each of the four
\* functions has returned exactly once, and the run finishes only when it
\* has moved past the last feature class of the list.
C30_Termination ==
  /\ Running ~> Ended
  /\ [][/\ (Running /\ ~Ended' /\ count' # count) =>
             /\ pc = "ex_table"
             /\ count' = count + 1
             /\ done_log' = LoopBody
        /\ (Running /\ pc' = "finished") =>
             /\ count = Len(input_parcels_fc_list) + 1
             /\ done_log = LoopBody]_vars
  /\ [](\A i, j \in DOMAIN done_log : done_log[i] = done_log[j] => i = j)

\* C30's case: a run has finished; both counties have their exemption fields
\* and their rows in both shared tables, and the last loop body was that of
\* the last county in sorted order.
C30_Witness ==
  /\ pc = "finished"
  /\ done_log = LoopBody
  /\ last_pass.fc = SortedFcNames[Len(SortedFcNames)]
  /\ \A fc \in FcNames :
       /\ exemption_fields \subseteq output_fcs[fc].fields
       /\ MaterialisedIn(dev_tables.requirements, fc)
       /\ MaterialisedIn(dev_tables.exemptions, fc)

=============================================================================
